---- MODULE Spec2Model ----
(***************************************************************************)
(* Model of bonus.py: the account registry, the assembly of the MILP       *)
(* ("prob"), the external solve, and the projection of the solved values   *)
(* (sorted account table, payday ledger, CSV export).                      *)
(*                                                                         *)
(* A constraint added by "prob += ..." is a record; its meaning is given   *)
(* by Holds.  The external solver (CBC, branch and bound) is a search that *)
(* assigns the decision variables one at a time and keeps only partial     *)
(* assignments that violate no constraint whose variables are all set, so  *)
(* the complete assignments it reaches are exactly the assignments that    *)
(* satisfy the built model; it returns one that attains the minimum.       *)
(***************************************************************************)
EXTENDS Integers, Sequences, FiniteSets, TLC

VARIABLES bonus_accounts, declared, paydays, prob, pc, status, opt, watch,
          cand, pos, hasValues, varValue, reads, shown, table, ledger, csv

vars == <<bonus_accounts, declared, paydays, prob, pc, status, opt, watch,
          cand, pos, hasValues, varValue, reads, shown, table, ledger, csv>>

----------------------------------------------------------------------------
(* Bounds of the model: the day range of the paydays and of the integer   *)
(* day variables, and the number of (payday, account) pairs of a problem. *)
MaxDay == 3
MaxPairs == 8

(* Program constants *)
pay_amount == 675
max_accounts_paid == 3
M == 1000
minimum_payment == 100
safety_days == 10
lead_time == 2

(* Representative integer amounts: zero, below the floor, the floor, the   *)
(* instalments and totals of the registry, and one above the budget.       *)
AmountValues == {0, 50, 100, 200, 500, 700}

----------------------------------------------------------------------------
(* Account: absent optional fields (None) are 0; the code tests them by    *)
(* truthiness, for which None and 0 agree.                                 *)
Account(name, start_date, days_till_deadline, total_amount, num_payments, value_per_payment, min_payments, total_sum) ==
    [name |-> name, start_date |-> start_date,
     days_till_deadline |-> days_till_deadline,
     total_amount |-> total_amount, num_payments |-> num_payments,
     value_per_payment |-> value_per_payment,
     min_payments |-> min_payments, total_sum |-> total_sum]

(* The registry the account lists are drawn from (in declaration order).   *)
AccountPool ==
    << Account("Wells Fargo",   4, 12, 200, 0, 0,   0, 0),
       Account("Citizens Bank", 3, 11, 0,   1, 200, 0, 0),
       Account("Chime",         3, 11, 0,   2, 100, 0, 0),
       Account("Truist",        5, 12, 0,   0, 0,   2, 300) >>

RECURSIVE SubSeqOf(_, _, _)
SubSeqOf(seq, S, i) ==
    IF i > Len(seq) THEN << >>
    ELSE (IF i \in S THEN << seq[i] >> ELSE << >>) \o SubSeqOf(seq, S, i + 1)

AccountLists ==
    { SubSeqOf(AccountPool, S, 1) : S \in SUBSET (1..Len(AccountPool)) }

(* get_paydays: ascending day offsets, each strictly after today.          *)
PaydayLists ==
    { SubSeqOf([i \in 1..MaxDay |-> i], S, 1) : S \in SUBSET (1..MaxDay) }

Range(seq) == { seq[i] : i \in 1..Len(seq) }
Names(accts) == [i \in 1..Len(accts) |-> accts[i].name]

RECURSIVE SumF(_, _)
SumF(f, S) ==
    IF S = {} THEN 0
    ELSE LET x == CHOOSE y \in S : TRUE IN f[x] + SumF(f, S \ {x})

RECURSIVE MaxOf(_)
MaxOf(S) ==
    LET x == CHOOSE y \in S : TRUE
    IN IF S = {x} THEN x
       ELSE LET m == MaxOf(S \ {x}) IN IF x > m THEN x ELSE m

----------------------------------------------------------------------------
(* Decision variables *)
Var(v, p, a) == [v |-> v, p |-> p, a |-> a]
amounts(p, a) == Var("Amount", p, a)
paid(p, a) == Var("Paid", p, a)
created(a) == Var("Created", 0, a)
last_payment(a) == Var("Last_Payment", 0, a)
last_payment_payday(p, a) == Var("Last_Payment_Binary", p, a)
all_account_max_last_payment == Var("All_Account_Max_Last_Payment", 0, "")

(* lowBound / cat of each variable, cut to the model's day range *)
Dom(x) ==
    CASE x.v = "Amount" -> AmountValues
      [] x.v = "Paid" -> {0, 1}
      [] x.v = "Last_Payment_Binary" -> {0, 1}
      [] OTHER -> 0..MaxDay

AllVars(accts, pds) ==
    {all_account_max_last_payment}
    \cup { created(a) : a \in Range(Names(accts)) }
    \cup { last_payment(a) : a \in Range(Names(accts)) }
    \cup { amounts(p, a) : p \in Range(pds), a \in Range(Names(accts)) }
    \cup { paid(p, a) : p \in Range(pds), a \in Range(Names(accts)) }
    \cup { last_payment_payday(p, a) : p \in Range(pds), a \in Range(Names(accts)) }

----------------------------------------------------------------------------
(* Constraints.  k is the constant captured when the constraint is built.  *)
Con(kind, p, a, k) == [kind |-> kind, p |-> p, a |-> a, k |-> k]

(* variables a constraint mentions *)
VarsOf(c, accts, pds) ==
    LET as == Range(Names(accts))
        ps == Range(pds)
    IN CASE c.kind = "budget" -> { amounts(c.p, a) : a \in as }
         [] c.kind = "cap" -> { paid(c.p, a) : a \in as }
         [] c.kind \in {"link_M", "link_min", "fixed_value"} ->
                {amounts(c.p, c.a), paid(c.p, c.a)}
         [] c.kind = "created_before_start" -> {created(c.a)}
         [] c.kind = "last_ge_payday" -> {last_payment(c.a), paid(c.p, c.a)}
         [] c.kind = "last_le_deadline" -> {last_payment(c.a), created(c.a)}
         [] c.kind = "last_is_payday" ->
                {last_payment(c.a)} \cup { last_payment_payday(p, c.a) : p \in ps }
         [] c.kind = "one_hot" -> { last_payment_payday(p, c.a) : p \in ps }
         [] c.kind = "created_le_paid" -> {created(c.a), paid(c.p, c.a)}
         [] c.kind \in {"lump_total", "min_total"} -> { amounts(p, c.a) : p \in ps }
         [] c.kind \in {"lump_paid", "fixed_count", "min_count"} ->
                { paid(p, c.a) : p \in ps }
         [] c.kind = "max_last" -> {all_account_max_last_payment, last_payment(c.a)}
         [] OTHER -> {}


(* left-hand sides of the linear constraints *)
SumAmountsAt(asg, p, accts) ==
    SumF([a \in Range(Names(accts)) |-> asg[amounts(p, a)]], Range(Names(accts)))
SumPaidAt(asg, p, accts) ==
    SumF([a \in Range(Names(accts)) |-> asg[paid(p, a)]], Range(Names(accts)))
SumAmountsOf(asg, a, pds) ==
    SumF([p \in Range(pds) |-> asg[amounts(p, a)]], Range(pds))
SumPaidOf(asg, a, pds) ==
    SumF([p \in Range(pds) |-> asg[paid(p, a)]], Range(pds))
SumSelected(asg, a, pds) ==
    SumF([p \in Range(pds) |-> asg[last_payment_payday(p, a)]], Range(pds))
SumSelectedDays(asg, a, pds) ==
    SumF([p \in Range(pds) |-> p * asg[last_payment_payday(p, a)]], Range(pds))

(* amounts <= pay_amount summed over the accounts, line 106 *)
BudgetHolds(asg, c, accts) == SumAmountsAt(asg, c.p, accts) <= c.k
(* mutant: the cap is off by one *)
CapHoldsLoose(asg, c, accts) == SumPaidAt(asg, c.p, accts) <= c.k + 1
(* at most 3 accounts paid, line 110 *)
CapHolds(asg, c, accts) == SumPaidAt(asg, c.p, accts) <= c.k
(* mutant: the bound is not gated by the indicator *)
LinkUpperUngated(amount, x, bigM) == amount <= bigM
(* y <= M x, line 119 *)
LinkUpper(amount, x, bigM) == amount <= bigM * x
(* y >= minimum_payment x, line 125 *)
LinkFloor(amount, x, floor) == amount >= floor * x
(* created <= start_date - 2, line 129 *)
CreatedBeforeStart(asg, c) == asg[created(c.a)] <= c.k
(* mutant: the payday is dropped from the right-hand side *)
LastGePaydayUngated(asg, c) == asg[last_payment(c.a)] >= asg[paid(c.p, c.a)]
(* last_payment >= payday * paid, line 137 *)
LastGePayday(asg, c) == asg[last_payment(c.a)] >= c.p * asg[paid(c.p, c.a)]
(* last_payment <= created + days_till_deadline, line 140 *)
LastLeDeadline(asg, c) == asg[last_payment(c.a)] <= asg[created(c.a)] + c.k
(* last_payment == sum of payday * selector, line 147 *)
LastIsPayday(asg, c, pds) == asg[last_payment(c.a)] = SumSelectedDays(asg, c.a, pds)
(* sum of selectors == 1, line 148 *)
OneHot(asg, c, pds) == SumSelected(asg, c.a, pds) = c.k
(* created <= payday + M (1 - paid), line 154 *)
CreatedLePaid(asg, c) == asg[created(c.a)] <= c.p + c.k * (1 - asg[paid(c.p, c.a)])
(* mutant: an inequality instead of the equality *)
FixedValueAtLeast(asg, c) == asg[amounts(c.p, c.a)] >= c.k * asg[paid(c.p, c.a)]
(* amounts == value_per_payment * paid, line 170 *)
FixedValue(asg, c) == asg[amounts(c.p, c.a)] = c.k * asg[paid(c.p, c.a)]
(* mutant: the bound is one day short *)
MaxLastOffByOne(asg, c) ==
    asg[all_account_max_last_payment] >= asg[last_payment(c.a)] - 1
(* all_account_max_last_payment >= last_payment, line 183 *)
MaxLast(asg, c) == asg[all_account_max_last_payment] >= asg[last_payment(c.a)]

Holds(asg, c, accts, pds) ==
    CASE c.kind = "budget" -> BudgetHolds(asg, c, accts)
      [] c.kind = "cap" -> CapHolds(asg, c, accts)
      [] c.kind = "link_M" -> LinkUpper(asg[amounts(c.p, c.a)], asg[paid(c.p, c.a)], c.k)
      [] c.kind = "link_min" -> LinkFloor(asg[amounts(c.p, c.a)], asg[paid(c.p, c.a)], c.k)
      [] c.kind = "created_before_start" -> CreatedBeforeStart(asg, c)
      [] c.kind = "last_ge_payday" -> LastGePayday(asg, c)
      [] c.kind = "last_le_deadline" -> LastLeDeadline(asg, c)
      [] c.kind = "last_is_payday" -> LastIsPayday(asg, c, pds)
      [] c.kind = "one_hot" -> OneHot(asg, c, pds)
      [] c.kind = "created_le_paid" -> CreatedLePaid(asg, c)
      [] c.kind = "lump_total" -> SumAmountsOf(asg, c.a, pds) = c.k
      [] c.kind = "lump_paid" -> SumPaidOf(asg, c.a, pds) >= c.k
      [] c.kind = "fixed_count" -> SumPaidOf(asg, c.a, pds) = c.k
      [] c.kind = "fixed_value" -> FixedValue(asg, c)
      [] c.kind = "min_count" -> SumPaidOf(asg, c.a, pds) >= c.k
      [] c.kind = "min_total" -> SumAmountsOf(asg, c.a, pds) >= c.k
      [] c.kind = "max_last" -> MaxLast(asg, c)
      [] OTHER -> FALSE

Satisfies(asg, P, accts, pds) == \A c \in P : Holds(asg, c, accts, pds)

----------------------------------------------------------------------------
(* Model Builder: the constraints each block of the script adds to prob.   *)
BudgetConstraints(pds) == { Con("budget", p, "", pay_amount) : p \in Range(pds) }
CapConstraints(pds) == { Con("cap", p, "", max_accounts_paid) : p \in Range(pds) }
LinkMConstraints(accts, pds) ==
    { Con("link_M", p, a, M) : p \in Range(pds), a \in Range(Names(accts)) }
LinkMinConstraints(accts, pds) ==
    { Con("link_min", p, a, minimum_payment) : p \in Range(pds), a \in Range(Names(accts)) }
CreatedConstraints(accts) ==
    { Con("created_before_start", 0, acc.name, acc.start_date - lead_time) :
        acc \in Range(accts) }
LastPaymentConstraints(accts, pds) ==
    { Con("last_ge_payday", p, a, 0) : p \in Range(pds), a \in Range(Names(accts)) }
    \cup { Con("last_le_deadline", 0, acc.name, acc.days_till_deadline) :
             acc \in Range(accts) }
SelectorConstraints(accts) ==
    { Con("last_is_payday", 0, a, 0) : a \in Range(Names(accts)) }
    \cup { Con("one_hot", 0, a, 1) : a \in Range(Names(accts)) }
AfterCreatedConstraints(accts, pds) ==
    { Con("created_le_paid", p, a, M) : p \in Range(pds), a \in Range(Names(accts)) }
(* mutant: the total is only a lower bound *)
LumpSumConstraintsAtLeast(accts) ==
    LET sel == { acc \in Range(accts) : acc.total_amount # 0 }
    IN { Con("min_total", 0, acc.name, acc.total_amount) : acc \in sel }
       \cup { Con("lump_paid", 0, acc.name, 1) : acc \in sel }
LumpSumConstraints(accts) ==
    LET sel == { acc \in Range(accts) : acc.total_amount # 0 }
    IN { Con("lump_total", 0, acc.name, acc.total_amount) : acc \in sel }
       \cup { Con("lump_paid", 0, acc.name, 1) : acc \in sel }
FixedPlanConstraints(accts, pds) ==
    LET sel == { acc \in Range(accts) :
                   acc.num_payments # 0 /\ acc.value_per_payment # 0 }
    IN { Con("fixed_count", 0, acc.name, acc.num_payments) : acc \in sel }
       \cup { Con("fixed_value", p, acc.name, acc.value_per_payment) :
                p \in Range(pds), acc \in sel }
MinimumPlanConstraints(accts) ==
    LET sel == { acc \in Range(accts) : acc.min_payments # 0 /\ acc.total_sum # 0 }
    IN { Con("min_count", 0, acc.name, acc.min_payments) : acc \in sel }
       \cup { Con("min_total", 0, acc.name, acc.total_sum) : acc \in sel }
HorizonConstraints(accts) ==
    { Con("max_last", 0, a, 0) : a \in Range(Names(accts)) }

(* mutant: the safety margin is not subtracted *)
SubtractSafetyNone(accts) == accts
(* for account in bonus_accounts: account.days_till_deadline -= safety_days *)
SubtractSafety(accts) ==
    [i \in 1..Len(accts) |->
        [accts[i] EXCEPT !.days_till_deadline = @ - safety_days]]

----------------------------------------------------------------------------
(* Solver (prob.solve): branch over the variables in a fixed order.        *)
PaydayBlock(a, pds) ==
    [i \in 1..(2 * Len(pds)) |->
        IF i % 2 = 1 THEN paid(pds[(i + 1) \div 2], a)
        ELSE amounts(pds[i \div 2], a)]

AccountBlock(a, pds) ==
    [i \in 1..Len(pds) |-> last_payment_payday(pds[i], a)]
    \o << last_payment(a), created(a) >> \o PaydayBlock(a, pds)

RECURSIVE AccountBlocks(_, _, _)
AccountBlocks(accts, pds, i) ==
    IF i > Len(accts) THEN << >>
    ELSE AccountBlock(accts[i].name, pds) \o AccountBlocks(accts, pds, i + 1)

(* the order of the search: the accounts' variables, then the objective *)
VarOrder(accts, pds) ==
    AccountBlocks(accts, pds, 1) \o << all_account_max_last_payment >>

(* the order used to bound the objective: its value is fixed first *)
BoundOrder(accts, pds) ==
    << all_account_max_last_payment >> \o AccountBlocks(accts, pds, 1)

Unset(accts, pds) == [x \in AllVars(accts, pds) |-> 0]

(* the constraints whose last variable in the order is the i-th one *)
Closed(P, order, i, accts, pds) ==
    LET done == { order[j] : j \in 1..i }
    IN { c \in P : order[i] \in VarsOf(c, accts, pds)
                   /\ VarsOf(c, accts, pds) \subseteq done }

WatchList(P, order, accts, pds) ==
    [i \in 1..Len(order) |-> Closed(P, order, i, accts, pds)]

(* constraints without variables (sums over no payday or no account) *)
ConstantsHold(P, accts, pds) ==
    \A c \in P : VarsOf(c, accts, pds) = {} => Holds(Unset(accts, pds), c, accts, pds)

CanSet(asg, x, v, closing, accts, pds) ==
    LET asg2 == [asg EXCEPT ![x] = v]
    IN \A c \in closing : Holds(asg2, c, accts, pds)

RECURSIVE Extends(_, _, _, _, _, _)
Extends(asg, order, i, w, accts, pds) ==
    IF i > Len(order) THEN TRUE
    ELSE \E v \in Dom(order[i]) :
            /\ CanSet(asg, order[i], v, w[i], accts, pds)
            /\ Extends([asg EXCEPT ![order[i]] = v], order, i + 1, w, accts, pds)

(* objective: prob += all_account_max_last_payment *)
Objective(asg) == asg[all_account_max_last_payment]

RECURSIVE MinOf(_)
MinOf(S) ==
    LET x == CHOOSE y \in S : TRUE
    IN IF S = {x} THEN x
       ELSE LET m == MinOf(S \ {x}) IN IF x < m THEN x ELSE m

(* what the solver determines: the terminal status and the optimum *)
SolverOutcome(P, accts, pds) ==
    LET order == BoundOrder(accts, pds)
        zero == Unset(accts, pds)
        w == WatchList(P, order, accts, pds)
        objs == { h \in Dom(all_account_max_last_payment) :
                    /\ CanSet(zero, order[1], h, w[1], accts, pds)
                    /\ Extends([zero EXCEPT ![order[1]] = h], order, 2, w, accts, pds) }
    IN IF ~ConstantsHold(P, accts, pds)
       THEN [status |-> "Infeasible", value |-> 0]
       ELSE IF objs = {}
       THEN [status |-> "Infeasible", value |-> 0]
       ELSE IF \A c \in P : all_account_max_last_payment \notin VarsOf(c, accts, pds)
       THEN [status |-> "Unbounded", value |-> 0]
       ELSE [status |-> "Optimal", value |-> MinOf(objs)]

----------------------------------------------------------------------------
(* Result Projector helpers *)
RECURSIVE InsertByKey(_, _, _)
InsertByKey(sorted, x, key) ==
    IF sorted = << >> THEN << x >>
    ELSE IF key[sorted[Len(sorted)].name] <= key[x.name] THEN Append(sorted, x)
    ELSE Append(InsertByKey(SubSeq(sorted, 1, Len(sorted) - 1), x, key),
                sorted[Len(sorted)])

RECURSIVE SortedPrefix(_, _, _)
SortedPrefix(seq, n, key) ==
    IF n = 0 THEN << >>
    ELSE InsertByKey(SortedPrefix(seq, n - 1, key), seq[n], key)

(* list.sort(key=...): stable, ascending *)
SortByCreated(accts, val) ==
    SortedPrefix(accts, Len(accts), [a \in Range(Names(accts)) |-> val[created(a)]])

----------------------------------------------------------------------------
Init ==
    /\ bonus_accounts \in AccountLists
    /\ declared = bonus_accounts
    /\ paydays \in PaydayLists
    /\ Len(bonus_accounts) * Len(paydays) <= MaxPairs
    /\ watch = << >>
    /\ prob = {}
    /\ pc = "safety"
    /\ status = "Not Solved"
    /\ opt = [status |-> "Not Solved", value |-> 0]
    /\ cand = Unset(bonus_accounts, paydays)
    /\ pos = 0
    /\ hasValues = FALSE
    /\ varValue = Unset(bonus_accounts, paydays)
    /\ reads = {}
    /\ shown = "<none>"
    /\ table = << >>
    /\ ledger = << >>
    /\ csv = << >>

BuildStep(from, to, added) ==
    /\ pc = from
    /\ prob' = prob \cup added
    /\ pc' = to
    /\ UNCHANGED <<bonus_accounts, declared, paydays, status, opt, watch, cand, pos,
                   hasValues, varValue, reads, shown, table, ledger, csv>>

ApplySafety ==
    /\ pc = "safety"
    /\ bonus_accounts' = SubtractSafety(bonus_accounts)
    /\ pc' = "budget"
    /\ UNCHANGED <<declared, paydays, prob, status, opt, watch, cand, pos,
                   hasValues, varValue, reads, shown, table, ledger, csv>>

AddBudget == BuildStep("budget", "cap", BudgetConstraints(paydays))
AddCap == BuildStep("cap", "link_M", CapConstraints(paydays))
AddLinkM == BuildStep("link_M", "link_min", LinkMConstraints(bonus_accounts, paydays))
AddLinkMin == BuildStep("link_min", "created", LinkMinConstraints(bonus_accounts, paydays))
AddCreated == BuildStep("created", "last", CreatedConstraints(bonus_accounts))
AddLastPayment == BuildStep("last", "selector", LastPaymentConstraints(bonus_accounts, paydays))
AddSelector == BuildStep("selector", "after", SelectorConstraints(bonus_accounts))
AddAfterCreated == BuildStep("after", "lump", AfterCreatedConstraints(bonus_accounts, paydays))
AddLumpSum == BuildStep("lump", "fixed", LumpSumConstraints(bonus_accounts))
AddFixedPlan == BuildStep("fixed", "minimum", FixedPlanConstraints(bonus_accounts, paydays))
AddMinimumPlan == BuildStep("minimum", "horizon", MinimumPlanConstraints(bonus_accounts))
AddHorizon == BuildStep("horizon", "solve", HorizonConstraints(bonus_accounts))

(* prob.solve(PULP_CBC_CMD(msg=0)) *)
SolveStart ==
    /\ pc = "solve"
    /\ opt' = SolverOutcome(prob, bonus_accounts, paydays)
    /\ watch' = IF ConstantsHold(prob, bonus_accounts, paydays)
                THEN WatchList(prob, VarOrder(bonus_accounts, paydays),
                               bonus_accounts, paydays)
                ELSE << >>
    /\ pc' = "search"
    /\ UNCHANGED <<bonus_accounts, declared, paydays, prob, status, cand, pos,
                   hasValues, varValue, reads, shown, table, ledger, csv>>

Order == VarOrder(bonus_accounts, paydays)
Complete == pc = "search" /\ pos = Len(Order)

SolveBranch ==
    /\ pc = "search"
    /\ pos < Len(watch)
    /\ \E v \in Dom(Order[pos + 1]) :
          /\ CanSet(cand, Order[pos + 1], v, watch[pos + 1], bonus_accounts, paydays)
          /\ cand' = [cand EXCEPT ![Order[pos + 1]] = v]
    /\ pos' = pos + 1
    /\ UNCHANGED <<bonus_accounts, declared, paydays, prob, pc, status, opt, watch,
                   hasValues, varValue, reads, shown, table, ledger, csv>>

SolveOptimal ==
    /\ Complete
    /\ opt.status = "Optimal"
    /\ Objective(cand) = opt.value
    /\ status' = "Optimal"
    /\ varValue' = cand
    /\ hasValues' = TRUE
    /\ pc' = "status"
    /\ UNCHANGED <<bonus_accounts, declared, paydays, prob, opt, watch, cand, pos,
                   reads, shown, table, ledger, csv>>

(* no optimum: the variables keep None, or get whatever the solver wrote *)
SolveNotOptimal ==
    /\ pc = "search"
    /\ pos = 0
    /\ opt.status \in {"Infeasible", "Unbounded"}
    /\ status' = opt.status
    /\ hasValues' \in BOOLEAN
    /\ pc' = "status"
    /\ UNCHANGED <<bonus_accounts, declared, paydays, prob, opt, watch, cand, pos,
                   varValue, reads, shown, table, ledger, csv>>

(* print("Status:", pulp.LpStatus[prob.status]) *)
PrintStatus ==
    /\ pc = "status"
    /\ shown' = status
    /\ pc' = "sort"
    /\ UNCHANGED <<bonus_accounts, declared, paydays, prob, status, opt, watch, cand, pos,
                   hasValues, varValue, reads, table, ledger, csv>>

(* bonus_accounts.sort(key=lambda x: created[x].varValue): the key is read  *)
(* for every account; comparing two None keys raises TypeError.            *)
SortAccounts ==
    /\ pc = "sort"
    /\ reads' = IF Len(bonus_accounts) > 0 THEN reads \cup {"sort"} ELSE reads
    /\ IF ~hasValues /\ Len(bonus_accounts) >= 2
       THEN pc' = "TypeError" /\ UNCHANGED bonus_accounts
       ELSE /\ pc' = "table"
            /\ bonus_accounts' = IF hasValues
                                 THEN SortByCreated(bonus_accounts, varValue)
                                 ELSE bonus_accounts
    /\ UNCHANGED <<declared, paydays, prob, status, opt, watch, cand, pos,
                   hasValues, varValue, shown, table, ledger, csv>>

(* account table: timedelta(days=None) raises TypeError *)
PrintTable ==
    /\ pc = "table"
    /\ reads' = IF Len(bonus_accounts) > 0 THEN reads \cup {"table"} ELSE reads
    /\ IF ~hasValues /\ Len(bonus_accounts) >= 1
       THEN pc' = "TypeError" /\ UNCHANGED table
       ELSE /\ pc' = "ledger"
            /\ table' = [i \in 1..Len(bonus_accounts) |->
                           [name |-> bonus_accounts[i].name,
                            created_date |-> varValue[created(bonus_accounts[i].name)],
                            last_payment_date |->
                                varValue[last_payment(bonus_accounts[i].name)]]]
    /\ UNCHANGED <<bonus_accounts, declared, paydays, prob, status, opt, watch, cand, pos,
                   hasValues, varValue, shown, ledger, csv>>

RECURSIVE PaidLines(_, _, _, _)
PaidLines(accts, p, val, i) ==
    IF i > Len(accts) THEN << >>
    ELSE (IF val[paid(p, accts[i].name)] # 0
          THEN << <<accts[i].name, val[amounts(p, accts[i].name)]>> >>
          ELSE << >>) \o PaidLines(accts, p, val, i + 1)

RECURSIVE SumLines(_, _)
SumLines(lines, i) ==
    IF i > Len(lines) THEN 0 ELSE lines[i][2] + SumLines(lines, i + 1)

(* payday ledger: the amounts of the accounts whose paid value is truthy *)
PrintLedger ==
    /\ pc = "ledger"
    /\ reads' = IF Len(bonus_accounts) > 0 /\ Len(paydays) > 0
                THEN reads \cup {"ledger"} ELSE reads
    /\ ledger' = [i \in 1..Len(paydays) |->
                    LET lines == PaidLines(bonus_accounts, paydays[i], varValue, 1)
                    IN [payday |-> paydays[i], total |-> SumLines(lines, 1),
                        lines |-> lines]]
    /\ pc' = "csv"
    /\ UNCHANGED <<bonus_accounts, declared, paydays, prob, status, opt, watch, cand, pos,
                   hasValues, varValue, shown, table, csv>>

(* bonus_schedule.csv: header row, then one row per payday *)
WriteCsv ==
    /\ pc = "csv"
    /\ reads' = IF Len(bonus_accounts) > 0 /\ Len(paydays) > 0
                THEN reads \cup {"csv"} ELSE reads
    /\ csv' = [header |-> << "Payday" >> \o Names(bonus_accounts),
               rows |-> [i \in 1..Len(paydays) |->
                           [payday |-> paydays[i],
                            cells |-> [j \in 1..Len(bonus_accounts) |->
                                varValue[amounts(paydays[i], bonus_accounts[j].name)]]]]]
    /\ pc' = "done"
    /\ UNCHANGED <<bonus_accounts, declared, paydays, prob, status, opt, watch, cand, pos,
                   hasValues, varValue, shown, table, ledger>>

Next ==
    \/ ApplySafety
    \/ AddBudget
    \/ AddCap
    \/ AddLinkM
    \/ AddLinkMin
    \/ AddCreated
    \/ AddLastPayment
    \/ AddSelector
    \/ AddAfterCreated
    \/ AddLumpSum
    \/ AddFixedPlan
    \/ AddMinimumPlan
    \/ AddHorizon
    \/ SolveStart
    \/ SolveBranch
    \/ SolveOptimal
    \/ SolveNotOptimal
    \/ PrintStatus
    \/ SortAccounts
    \/ PrintTable
    \/ PrintLedger
    \/ WriteCsv

Spec == Init /\ [][Next]_vars

----------------------------------------------------------------------------
(* Vocabulary of the properties *)
AccountNames == Range(Names(declared))
PaydaySet == Range(paydays)
PaidDays(asg, a) == { p \in PaydaySet : asg[amounts(p, a)] # 0 }
PaidAccounts(asg, p) == { a \in AccountNames : asg[amounts(p, a)] # 0 }
TotalAt(asg, p) == SumF([a \in AccountNames |-> asg[amounts(p, a)]], AccountNames)
TotalOf(asg, a) == SumF([p \in PaydaySet |-> asg[amounts(p, a)]], PaydaySet)
Window(acc) == acc.days_till_deadline - 10
IsLumpSum(acc) == acc.total_amount # 0
IsFixedPlan(acc) == acc.num_payments # 0 /\ acc.value_per_payment # 0
IsMinimumPlan(acc) == acc.min_payments # 0 /\ acc.total_sum # 0

(* C1: in every assignment that satisfies the built model, on every payday *)
(* the amounts of all accounts sum to at most 675 and at most 3 accounts   *)
(* receive a non-zero amount.                                              *)
C1_ResourceCaps ==
    Complete =>
        \A p \in PaydaySet :
            /\ TotalAt(cand, p) <= 675
            /\ Cardinality(PaidAccounts(cand, p)) <= 3

C1_Witness ==
    /\ Complete
    /\ Satisfies(cand, prob, bonus_accounts, paydays)
    /\ Len(declared) = 4
    /\ \E p \in PaydaySet :
          Cardinality(PaidAccounts(cand, p)) = 3 /\ TotalAt(cand, p) >= 500

(* C2: for a fixed-plan account, in every satisfying assignment the number *)
(* of paydays with a non-zero amount equals num_payments and every         *)
(* non-zero amount equals value_per_payment.                               *)
C2_FixedPlan ==
    Complete =>
        \A acc \in Range(declared) :
            IsFixedPlan(acc) =>
                /\ Cardinality(PaidDays(cand, acc.name)) = acc.num_payments
                /\ \A p \in PaidDays(cand, acc.name) :
                      cand[amounts(p, acc.name)] = acc.value_per_payment

C2_Witness ==
    /\ Complete
    /\ \E acc \in Range(declared) :
          /\ IsFixedPlan(acc)
          /\ acc.num_payments = 2
          /\ Cardinality(PaidDays(cand, acc.name)) = 2
          /\ Len(paydays) = 3

(* C3: for a lump-sum account, in every satisfying assignment the amounts  *)
(* over all paydays sum to total_amount exactly and at least one payday    *)
(* carries a non-zero amount.                                              *)
C3_LumpSum ==
    Complete =>
        \A acc \in Range(declared) :
            IsLumpSum(acc) =>
                /\ TotalOf(cand, acc.name) = acc.total_amount
                /\ PaidDays(cand, acc.name) # {}

C3_Witness ==
    /\ Complete
    /\ \E acc \in Range(declared) :
          IsLumpSum(acc) /\ Cardinality(PaidDays(cand, acc.name)) = 2

(* C4: in every satisfying assignment every payday d on which an account   *)
(* receives a non-zero amount lies in                                      *)
(* [created, created + declared days_till_deadline - 10].                  *)
C4_PaidWithinWindow ==
    Complete =>
        \A acc \in Range(declared) :
            \A d \in PaidDays(cand, acc.name) :
                /\ cand[created(acc.name)] <= d
                /\ d <= cand[created(acc.name)] + Window(acc)

C4_Witness ==
    /\ Complete
    /\ \E acc \in Range(declared) :
          /\ cand[created(acc.name)] > 0
          /\ cand[created(acc.name)] \in PaidDays(cand, acc.name)
          /\ (cand[created(acc.name)] + Window(acc)) \in PaidDays(cand, acc.name)

(* C5: the account columns of the exported CSV (after the leading Payday   *)
(* column) are in account declaration order, whatever the created values.  *)
C5_CsvDeclarationOrder ==
    pc = "done" => csv.header = << "Payday" >> \o Names(declared)

(* C6: with a terminal status other than optimal the run displays the      *)
(* status and reads no variable value for the account table, the payday    *)
(* ledger or the CSV export.                                               *)
C6_NoProjectionUnlessOptimal ==
    status \in {"Infeasible", "Unbounded"} =>
        /\ reads = {}
        /\ pc \in {"sort", "table", "ledger", "csv", "done"} => shown = status

(* C7: if for some account every admissible window [c, c + window], with   *)
(* 0 <= c <= start_date - 2, holds fewer paydays than the payments the     *)
(* account requires, the built model has no satisfying assignment; so has  *)
(* a model with an account and no payday.                                  *)
Required(acc) ==
    IF IsFixedPlan(acc) THEN acc.num_payments
    ELSE IF IsMinimumPlan(acc) THEN acc.min_payments
    ELSE 1

WindowTooShort(acc) ==
    \A c \in 0..(acc.start_date - 2) :
        Cardinality({ p \in PaydaySet : c <= p /\ p <= c + Window(acc) }) < Required(acc)

C7_ShortWindowInfeasible ==
    ((\E acc \in Range(declared) : WindowTooShort(acc))
        \/ (paydays = << >> /\ Len(declared) >= 1))
    => /\ ~Complete
       /\ opt.status \in {"Not Solved", "Infeasible"}
       /\ status \in {"Not Solved", "Infeasible"}

C7_Witness ==
    /\ pc = "status"
    /\ status = "Infeasible"
    /\ Len(paydays) = 2
    /\ \E acc \in Range(declared) : WindowTooShort(acc) /\ Required(acc) = 2

(* C8: in every optimal assignment the horizon equals the largest          *)
(* last_payment over the accounts, and that value is the latest payday on  *)
(* which any account receives a non-zero amount.                           *)
C8_HorizonIsLatestPayment ==
    (status = "Optimal" /\ Len(declared) >= 1) =>
        /\ varValue[all_account_max_last_payment]
              = MaxOf({ varValue[last_payment(a)] : a \in AccountNames })
        /\ varValue[all_account_max_last_payment]
              = MaxOf(UNION { PaidDays(varValue, a) : a \in AccountNames })

C8_Witness ==
    /\ pc = "status"
    /\ status = "Optimal"
    /\ Len(declared) >= 2
    /\ \E a \in AccountNames :
          varValue[last_payment(a)] < varValue[all_account_max_last_payment]

(* C9: in every optimal assignment last_payment[account] is the largest    *)
(* payday on which the account receives a non-zero amount.                 *)
C9_LastPaymentIsFinalDisbursement ==
    status = "Optimal" =>
        \A a \in AccountNames :
            /\ PaidDays(varValue, a) # {}
            /\ varValue[last_payment(a)] = MaxOf(PaidDays(varValue, a))

====
